---- MODULE Spec2Model ----
(***************************************************************************)
(* A model of AeroSandbox as given here: the CI workflow run-pytest.yml and *)
(* the two tutorial notebooks (the 1D rocket problem with manual dynamics  *)
(* and the constrained-gradient problem).                                  *)
(*                                                                         *)
(* Four specifications share the module:                                   *)
(*   SpecCI       the jobs of the workflow, one per matrix entry;          *)
(*   SpecNotebook the cell-by-cell execution of the two notebooks;         *)
(*   SpecRocket   the constraints the rocket notebook poses, evaluated on  *)
(*                candidate assignments of its decision variables;         *)
(*   SpecMass     the same, on candidates for the mass constraint alone.   *)
(***************************************************************************)
EXTENDS Integers, Sequences, FiniteSets

VARIABLES
    workflow,   \* "idle" until a push / pull_request event triggers the run
    job,        \* per matrix entry: the job's position, status, environment, log
    nb,         \* per notebook: the kernel's position, the calls made, the errors
    y,          \* rocket problem: a candidate altitude at each grid point
    velocity,   \* ... velocity at each grid point
    mass,       \* ... mass at each grid point
    u,          \* ... control (thrust) at each grid point
    sat,        \* << >>, or the one evaluation of the problem on the candidate
    lastOp      \* the last operation on the candidate

ciVars == <<workflow, job>>
nbVars == <<nb>>
rocketVars == <<y, velocity, mass, u, sat, lastOp>>
vars == <<workflow, job, nb, y, velocity, mass, u, sat, lastOp>>

----------------------------------------------------------------------------
(* run-pytest.yml                                                          *)

\* Highest exit status a command is drawn from (0 is success).
MaxExit == 2

ExitCodes == 0 .. MaxExit

\* on: push / pull_request, every branch.
Events == {"push", "pull_request"}

\* strategy.matrix.python-version
PythonVersions == {"3.9", "3.11", "3.12"}

\* The steps with the two test steps exchanged.
StepsTutorialsFirst ==
    << [name |-> "checkout",
        cmds |-> << "actions/checkout@v4" >>],
       [name |-> "Set up Python",
        cmds |-> << "actions/setup-python@v5" >>],
       [name |-> "Install dependencies",
        cmds |-> << "python -m pip cache purge",
                    "python -m pip install --upgrade pip",
                    "python -m pip install --upgrade setuptools" >>],
       [name |-> "Test with pytest (with extras; only tutorials)",
        cmds |-> << "python -m pip install .[full,test]",
                    "py.test tutorial --nbval-lax --nbval-cell-timeout 120" >>],
       [name |-> "Test with pytest (without extras; only package)",
        cmds |-> << "python -m pip install .[test]",
                    "pytest aerosandbox" >>] >>

\* jobs.build.steps, in the listed order; a `uses:` step is one command, a
\* `run: |` step is one command per line.
Steps ==
    << [name |-> "checkout",
        cmds |-> << "actions/checkout@v4" >>],
       [name |-> "Set up Python",
        cmds |-> << "actions/setup-python@v5" >>],
       [name |-> "Install dependencies",
        cmds |-> << "python -m pip cache purge",
                    "python -m pip install --upgrade pip",
                    "python -m pip install --upgrade setuptools" >>],
       [name |-> "Test with pytest (without extras; only package)",
        cmds |-> << "python -m pip install .[test]",
                    "pytest aerosandbox" >>],
       [name |-> "Test with pytest (with extras; only tutorials)",
        cmds |-> << "python -m pip install .[full,test]",
                    "py.test tutorial --nbval-lax --nbval-cell-timeout 120" >>] >>

NumSteps == Len(Steps)

PackageInstall  == "python -m pip install .[test]"
PackageTest     == "pytest aerosandbox"
TutorialInstall == "python -m pip install .[full,test]"
TutorialTest    == "py.test tutorial --nbval-lax --nbval-cell-timeout 120"

\* The extras of the package that a command installs when it succeeds.
InstallsFullFirst(cmd) ==
    IF cmd \in {PackageInstall, TutorialInstall} THEN {"full", "test"} ELSE {}

Installs(cmd) ==
    CASE cmd = PackageInstall  -> {"test"}
      [] cmd = TutorialInstall -> {"full", "test"}
      [] OTHER                 -> {}

\* The status of the job after a command exits: no step sets
\* continue-on-error and no step has an `if:`, so a non-zero exit fails the
\* step and the job, and the steps that follow are skipped.
ContinueOnError(code) == "running"

StatusAfter(code) == IF code = 0 THEN "running" ELSE "failure"

\* A job on a fresh runner: nothing of the package is installed.
FreshJob ==
    [step |-> 1, cmd |-> 1, status |-> "queued", extras |-> {}, log |-> << >>]

\* Before an event: every job of the matrix queued.
QueuedJobs == [v \in PythonVersions |-> FreshJob]

\* A push or pull_request event starts one job per matrix entry.
Trigger ==
    /\ workflow = "idle"
    /\ \E e \in Events : workflow' = e
    /\ job' = [v \in PythonVersions |-> [job[v] EXCEPT !.status = "running"]]
    /\ UNCHANGED <<nbVars, rocketVars>>

\* The job j after it ran the next command of its step, which exited with
\* `code`: the command is logged with the environment it ran in, a
\* successful install extends the environment, and the job moves to the next
\* command, fails, or (after the last command) succeeds.
AfterCommand(j, code) ==
    LET s      == j.step
        cmd    == Steps[s].cmds[j.cmd]
        entry  == [step |-> s, cmd |-> cmd, code |-> code, extras |-> j.extras]
        status == StatusAfter(code)
        last   == j.cmd = Len(Steps[s].cmds)
    IN  [step   |-> IF last THEN s + 1 ELSE s,
         cmd    |-> IF last THEN 1 ELSE j.cmd + 1,
         status |-> IF status = "running" /\ last /\ s = NumSteps
                    THEN "success" ELSE status,
         extras |-> IF code = 0 THEN j.extras \cup Installs(cmd) ELSE j.extras,
         log    |-> Append(j.log, entry)]

\* Whether job v is at step s and not finished.
AtStep(v, s) == job[v].status = "running" /\ job[v].step = s

Checkout(v) ==
    /\ AtStep(v, 1)
    /\ \E code \in ExitCodes : job' = [job EXCEPT ![v] = AfterCommand(@, code)]
    /\ UNCHANGED <<workflow, nbVars, rocketVars>>

SetUpPython(v) ==
    /\ AtStep(v, 2)
    /\ \E code \in ExitCodes : job' = [job EXCEPT ![v] = AfterCommand(@, code)]
    /\ UNCHANGED <<workflow, nbVars, rocketVars>>

InstallDependencies(v) ==
    /\ AtStep(v, 3)
    /\ \E code \in ExitCodes : job' = [job EXCEPT ![v] = AfterCommand(@, code)]
    /\ UNCHANGED <<workflow, nbVars, rocketVars>>

TestPackage(v) ==
    /\ AtStep(v, 4)
    /\ \E code \in ExitCodes : job' = [job EXCEPT ![v] = AfterCommand(@, code)]
    /\ UNCHANGED <<workflow, nbVars, rocketVars>>

TestTutorials(v) ==
    /\ AtStep(v, 5)
    /\ \E code \in ExitCodes : job' = [job EXCEPT ![v] = AfterCommand(@, code)]
    /\ UNCHANGED <<workflow, nbVars, rocketVars>>

CINext ==
    \/ Trigger
    \/ \E v \in PythonVersions : Checkout(v)
    \/ \E v \in PythonVersions : SetUpPython(v)
    \/ \E v \in PythonVersions : InstallDependencies(v)
    \/ \E v \in PythonVersions : TestPackage(v)
    \/ \E v \in PythonVersions : TestTutorials(v)


----------------------------------------------------------------------------
(* The two notebooks, executed cell by cell, top to bottom                  *)

Notebooks == {"rocket", "gradient"}

St(op, line) == [op |-> op, line |-> line, sol |-> FALSE]

\* A print of a value read from the solution `sol`.
PrintSol(line) == [op |-> "print", line |-> line, sol |-> TRUE]

\* The rocket notebook with the solve moved ahead of the boundary conditions.
RocketCellsSolveFirst ==
    << << St("import", 29), St("opti", 33), St("assign", 36),
          St("variable", 47), St("variable", 48), St("variable", 49),
          St("variable", 50) >>,
       << St("subject_to", 80) >>,
       << St("solve", 133), PrintSol(134), St("subject_to", 116),
          St("subject_to", 124), St("minimize", 130) >>,
       << St("constrain_derivative", 178), St("constrain_derivative", 183),
          St("constrain_derivative", 188) >> >>

\* The code cells of "01 - 1D Rocket Problem with Manual Dynamics.ipynb":
\* each statement with the line of the notebook file it starts on.
RocketCells ==
    << << St("import", 29), St("opti", 33), St("assign", 36),
          St("variable", 47), St("variable", 48), St("variable", 49),
          St("variable", 50) >>,
       << St("subject_to", 80) >>,
       << St("subject_to", 116), St("subject_to", 124), St("minimize", 130),
          St("solve", 133), PrintSol(134) >>,
       << St("constrain_derivative", 178), St("constrain_derivative", 183),
          St("constrain_derivative", 188) >> >>

\* The code cells of "02 - Constraining Gradients.ipynb".
GradientCells ==
    << << St("import", 41), St("opti", 44), St("variable", 46),
          St("def", 48) >>,
       << St("import", 66), St("assign", 68), St("assign", 70) >>,
       << St("subject_to", 106), St("solve", 110), PrintSol(112) >>,
       << St("print", 147) >> >>

Cells(n) == IF n = "rocket" THEN RocketCells ELSE GradientCells

\* What opti.solve may raise.
SolverFailures == {"failure", "infeasible", "nonconvergence"}

\* The kernel before the first cell.
FreshKernel ==
    [cell |-> 1, stmt |-> 1, status |-> "running", calls |-> << >>,
     errors |-> << >>]

FreshKernels == [n \in Notebooks |-> FreshKernel]

\* The statement notebook n is about to execute.
Current(n) == Cells(n)[nb[n].cell][nb[n].stmt]

At(n, ops) == nb[n].status = "running" /\ Current(n).op \in ops

\* The position after the statement at (cell, stmt) of cells cs completed.
Advance(cs, r) ==
    IF r.stmt < Len(cs[r.cell])
    THEN [r EXCEPT !.stmt = r.stmt + 1]
    ELSE IF r.cell < Len(cs)
         THEN [r EXCEPT !.cell = r.cell + 1, !.stmt = 1]
         ELSE [r EXCEPT !.status = "done"]

\* The kernel after the current statement of cells cs completed with
\* `outcome`: the call is recorded and the next statement is up.
Completed(cs, r, outcome) ==
    LET st == cs[r.cell][r.stmt]
    IN  Advance(cs, [r EXCEPT !.calls =
            Append(@, [op |-> st.op, line |-> st.line, sol |-> st.sol,
                       cell |-> r.cell, outcome |-> outcome])])

\* A raised exception handled as `except: pass`: execution goes on.
RaisedSwallowed(cs, r, exc, stop) == Completed(cs, r, exc)

\* The kernel after the current statement of cells cs raised exc: no
\* statement of the notebooks is inside a try, so the rest of the cell is
\* skipped and the cell ends with exc; a run then either stops at the failed
\* cell or goes on with the next cell.
Raised(cs, r, exc, stop) ==
    LET st     == cs[r.cell][r.stmt]
        failed == [r EXCEPT
                     !.calls  = Append(@, [op |-> st.op, line |-> st.line,
                                           sol |-> st.sol, cell |-> r.cell,
                                           outcome |-> exc]),
                     !.errors = Append(@, [cell |-> r.cell, exc |-> exc])]
    IN  IF stop \/ r.cell = Len(cs)
        THEN [failed EXCEPT !.status = "stopped"]
        ELSE [failed EXCEPT !.cell = r.cell + 1, !.stmt = 1]

\* import, plain assignment, function definition, asb.Opti().
Setup(n) ==
    /\ At(n, {"import", "assign", "def", "opti"})
    /\ nb' = [nb EXCEPT ![n] = Completed(Cells(n), @, "ok")]
    /\ UNCHANGED <<ciVars, rocketVars>>

\* opti.variable(...)
Variable(n) ==
    /\ At(n, {"variable"})
    /\ nb' = [nb EXCEPT ![n] = Completed(Cells(n), @, "ok")]
    /\ UNCHANGED <<ciVars, rocketVars>>

\* opti.subject_to(...)
SubjectTo(n) ==
    /\ At(n, {"subject_to"})
    /\ nb' = [nb EXCEPT ![n] = Completed(Cells(n), @, "ok")]
    /\ UNCHANGED <<ciVars, rocketVars>>

\* opti.constrain_derivative(...)
ConstrainDerivative(n) ==
    /\ At(n, {"constrain_derivative"})
    /\ nb' = [nb EXCEPT ![n] = Completed(Cells(n), @, "ok")]
    /\ UNCHANGED <<ciVars, rocketVars>>

\* opti.minimize(...)
Minimize(n) ==
    /\ At(n, {"minimize"})
    /\ nb' = [nb EXCEPT ![n] = Completed(Cells(n), @, "ok")]
    /\ UNCHANGED <<ciVars, rocketVars>>

\* sol = opti.solve(verbose=False) returns a solution.
SolveReturns(n) ==
    /\ At(n, {"solve"})
    /\ nb' = [nb EXCEPT ![n] = Completed(Cells(n), @, "ok")]
    /\ UNCHANGED <<ciVars, rocketVars>>

\* sol = opti.solve(verbose=False) raises.
SolveRaises(n) ==
    /\ At(n, {"solve"})
    /\ \E exc \in SolverFailures, stop \in BOOLEAN :
           nb' = [nb EXCEPT ![n] = Raised(Cells(n), @, exc, stop)]
    /\ UNCHANGED <<ciVars, rocketVars>>

\* print(...)
PrintOut(n) ==
    /\ At(n, {"print"})
    /\ nb' = [nb EXCEPT ![n] = Completed(Cells(n), @, "ok")]
    /\ UNCHANGED <<ciVars, rocketVars>>

NbNext ==
    \/ \E n \in Notebooks : Setup(n)
    \/ \E n \in Notebooks : Variable(n)
    \/ \E n \in Notebooks : SubjectTo(n)
    \/ \E n \in Notebooks : ConstrainDerivative(n)
    \/ \E n \in Notebooks : Minimize(n)
    \/ \E n \in Notebooks : SolveReturns(n)
    \/ \E n \in Notebooks : SolveRaises(n)
    \/ \E n \in Notebooks : PrintOut(n)


----------------------------------------------------------------------------
(* Properties of the CI workflow                                           *)

LogCmds(v) == {job[v].log[i].cmd : i \in 1 .. Len(job[v].log)}

\* The commands in the order the workflow lists them.
ListedOrder ==
    << "actions/checkout@v4",
       "actions/setup-python@v5",
       "python -m pip cache purge",
       "python -m pip install --upgrade pip",
       "python -m pip install --upgrade setuptools",
       PackageInstall,
       PackageTest,
       TutorialInstall,
       TutorialTest >>

\* C2: in every job the commands run strictly in the listed order, and the
\* tutorial test starts only after the package installation and the package
\* test both exited with status zero, never after a command that failed.
CIStepsInListedOrder ==
    \A v \in PythonVersions :
        LET log == job[v].log
        IN  /\ Len(log) <= Len(ListedOrder)
            /\ \A i \in 1 .. Len(log) : log[i].cmd = ListedOrder[i]
            /\ \A i \in 1 .. Len(log) :
                   log[i].cmd = TutorialTest =>
                       /\ \A k \in 1 .. i - 1 : log[k].code = 0
                       /\ \E k \in 1 .. i - 1 : log[k].cmd = PackageInstall
                       /\ \E k \in 1 .. i - 1 : log[k].cmd = PackageTest

\* A job ran the tutorial test.
CITutorialTestRan ==
    \E v \in PythonVersions : TutorialTest \in LogCmds(v)

CIExtrasPerTest ==
    \A v \in PythonVersions :
        LET log == job[v].log
        IN  /\ \A i \in 1 .. Len(log) :
                   /\ log[i].cmd = PackageTest => log[i].extras = {"test"}
                   /\ log[i].cmd = TutorialTest =>
                          log[i].extras = {"full", "test"}
                   /\ "full" \in log[i].extras =>
                          \E k \in 1 .. i - 1 :
                              log[k].cmd = TutorialInstall /\ log[k].code = 0
            /\ "full" \in job[v].extras =>
                   \E k \in 1 .. Len(log) :
                       log[k].cmd = TutorialInstall /\ log[k].code = 0

\* A job ran the package test and later the tutorial test.
CIBothTestsRan ==
    \E v \in PythonVersions : {PackageTest, TutorialTest} \subseteq LogCmds(v)

----------------------------------------------------------------------------
(* Exact arithmetic for the expressions of the rocket notebook: a number   *)
(* is a fraction <<n, d>> in lowest terms with d > 0, and <<0, 0>> stands   *)
(* for the non-finite result of a division by zero.                        *)

Abs(a) == IF a < 0 THEN -a ELSE a

RECURSIVE GCD(_, _)
GCD(a, b) == IF b = 0 THEN a ELSE GCD(b, a % b)

NaN == <<0, 0>>

IsNum(a) == a[2] # 0

\* n / d with both divided by their common divisor k, the sign on n.
Lowest(n, d, k) ==
    IF d < 0 THEN <<(0 - n) \div k, (0 - d) \div k>> ELSE <<n \div k, d \div k>>

Rat(n, d) == IF d = 0 THEN NaN ELSE Lowest(n, d, GCD(Abs(n), Abs(d)))

FromInt(n) == <<n, 1>>

RNeg(a) == <<-a[1], a[2]>>

\* a + b over the least common denominator, k the divisor the two
\* denominators share.
AddOver(a, b, k) ==
    Rat(a[1] * (b[2] \div k) + b[1] * (a[2] \div k), (a[2] \div k) * b[2])

RAdd(a, b) ==
    IF ~IsNum(a) \/ ~IsNum(b) THEN NaN ELSE AddOver(a, b, GCD(a[2], b[2]))

RSub(a, b) == RAdd(a, RNeg(b))

\* a * b, cancelling across (k1 in a's numerator and b's denominator, k2 in
\* b's numerator and a's denominator) before multiplying.
MulCancelled(a, b, k1, k2) ==
    <<(a[1] \div k1) * (b[1] \div k2), (a[2] \div k2) * (b[2] \div k1)>>

RMul(a, b) ==
    IF ~IsNum(a) \/ ~IsNum(b) THEN NaN
    ELSE MulCancelled(a, b, GCD(Abs(a[1]), b[2]), GCD(Abs(b[1]), a[2]))

RDiv(a, b) ==
    IF ~IsNum(a) \/ ~IsNum(b) \/ b[1] = 0 THEN NaN
    ELSE RMul(a, IF b[1] < 0 THEN <<-b[2], -b[1]>> ELSE <<b[2], b[1]>>)

\* Comparisons: one with a non-finite side is false.
REq(a, b)  == IsNum(a) /\ IsNum(b) /\ a = b
RLeq(a, b) == IsNum(a) /\ IsNum(b) /\ RSub(a, b)[1] <= 0
RGeq(a, b) == RLeq(b, a)
RLess(a, b) == RLeq(a, b) /\ ~REq(a, b)

----------------------------------------------------------------------------
(* The rocket problem: time grid, constants, constraints, objective        *)

\* Number of discretization points (100 in the notebook).
N == 3

\* Masses are in metric tons and thrusts in kN, a thousandth of the
\* notebook's kg and N ("500e3  # Initial mass, 500 metric tons"): u / mass
\* and alpha * u against a mass difference are the same in both units, so
\* every constraint reads as in the notebook.
time_final   == 100
mass_initial == 500
y_final      == 100000
g            == Rat(981, 100)
alpha        == RDiv(FromInt(1), RMul(FromInt(300), g))

\* np.linspace(a, b, n): n points from a to b, evenly spaced.
linspace(a, b, n) ==
    [i \in 1 .. n |->
        RAdd(a, RDiv(RMul(RSub(b, a), FromInt(i - 1)), FromInt(n - 1)))]

time == linspace(FromInt(0), FromInt(time_final), N)

\* np.diff(a): a[i+1] - a[i], one element fewer than a.
diff(a) == [i \in 1 .. Len(a) - 1 |-> RSub(a[i + 1], a[i])]

\* a[1:]
dropFirst(a) == SubSeq(a, 2, Len(a))

\* a[:-1]
dropLast(a) == SubSeq(a, 1, Len(a) - 1)

\* Elementwise a * b, a / b, a - c, c * a and the rows of a == b, a >= c.
VMul(a, b)   == [i \in 1 .. Len(a) |-> RMul(a[i], b[i])]
VDiv(a, b)   == [i \in 1 .. Len(a) |-> RDiv(a[i], b[i])]
VMinus(a, c) == [i \in 1 .. Len(a) |-> RSub(a[i], c)]
VScale(c, a) == [i \in 1 .. Len(a) |-> RMul(c, a[i])]
VEq(a, b)    == [i \in 1 .. Len(a) |-> REq(a[i], b[i])]
VGeq(a, c)   == [i \in 1 .. Len(a) |-> RGeq(a[i], c)]
VLeq(a, c)   == [i \in 1 .. Len(a) |-> RLeq(a[i], c)]

\* The three dynamics constraints of cell 2 on the candidate (py, pv, pm,
\* pu), each a vector of N-1 rows.
ManualDynamics(py, pv, pm, pu) ==
    [y        |-> VEq(diff(py), VMul(dropLast(pv), diff(time))),
     velocity |-> VEq(diff(pv),
                      VMul(VMinus(VDiv(dropLast(pu), dropLast(pm)), g),
                           diff(time))),
     mass     |-> VEq(diff(pm),
                      VMul(VScale(RNeg(alpha), dropLast(pu)), diff(time)))]

\* The boundary conditions of cell 3.
BoundaryConditions(py, pv, pm, pu) ==
    [y0      |-> REq(py[1], FromInt(0)),
     v0      |-> REq(pv[1], FromInt(0)),
     m0      |-> REq(pm[1], FromInt(mass_initial)),
     y_final |-> REq(py[Len(py)], FromInt(y_final))]

\* The path constraints with the inequality on u turned around.
PathConstraintsFlipped(py, pv, pm, pu) ==
    [mass |-> VGeq(pm, FromInt(0)),
     u    |-> VLeq(pu, FromInt(0))]

\* The path constraints of cell 3.
PathConstraints(py, pv, pm, pu) ==
    [mass |-> VGeq(pm, FromInt(0)),
     u    |-> VGeq(pu, FromInt(0))]

\* An objective that charges the fuel burnt at every grid point.
ObjectiveFuelBurnt(py, pv, pm, pu) ==
    LET total[i \in 0 .. Len(pu)] ==
            IF i = 0 THEN FromInt(0) ELSE RAdd(total[i - 1], pu[i])
    IN  RMul(alpha, total[Len(pu)])

\* opti.minimize(-mass[-1])
Objective(py, pv, pm, pu) == RNeg(pm[Len(pm)])

\* Everything the problem poses, evaluated on the candidate.
Posed(py, pv, pm, pu) ==
    [dynamics  |-> ManualDynamics(py, pv, pm, pu),
     boundary  |-> BoundaryConditions(py, pv, pm, pu),
     path      |-> PathConstraints(py, pv, pm, pu),
     objective |-> Objective(py, pv, pm, pu)]

----------------------------------------------------------------------------
(* Candidate assignments of the decision variables                         *)

\* The initial guesses of cell 1.
yGuess        == linspace(FromInt(0), FromInt(y_final), N)
velocityGuess == [i \in 1 .. N |-> RDiv(FromInt(y_final), FromInt(time_final))]
massGuess     == [i \in 1 .. N |-> FromInt(mass_initial)]
uGuess        == [i \in 1 .. N |-> RMul(g, FromInt(mass_initial))]

\* A trajectory that burns over the first interval and then hovers at the
\* speed that reaches y_final at the last grid point, cutting the engine
\* there.
dt == RDiv(FromInt(time_final), FromInt(N - 1))
vCruise == RDiv(FromInt(y_final), RMul(FromInt(N - 2), dt))

yBurn == [i \in 1 .. N |->
             IF i <= 2 THEN FromInt(0) ELSE RMul(FromInt(i - 2), RMul(vCruise, dt))]

velocityBurn == [i \in 1 .. N |-> IF i = 1 THEN FromInt(0) ELSE vCruise]

massBurn[i \in 1 .. N] ==
    IF i = 1 THEN FromInt(mass_initial)
    ELSE IF i = 2
         THEN RSub(FromInt(mass_initial),
                   RMul(RMul(alpha, RMul(FromInt(mass_initial),
                                         RAdd(g, RDiv(vCruise, dt)))), dt))
         ELSE RMul(massBurn[i - 1],
                   RSub(FromInt(1), RMul(RMul(alpha, g), dt)))

uBurn == [i \in 1 .. N |->
             IF i = 1 THEN RMul(FromInt(mass_initial), RAdd(g, RDiv(vCruise, dt)))
             ELSE IF i = N THEN FromInt(0)
                  ELSE RMul(g, massBurn[i])]

\* The value an entry takes where a candidate leaves the burn trajectory:
\* the initial guess, or where the two agree one more (y), a zero initial
\* mass.
yOther(i) ==
    IF yGuess[i] = yBurn[i] THEN RAdd(yBurn[i], FromInt(1)) ELSE yGuess[i]

velocityOther(i) == velocityGuess[i]

massOther(i) == IF i = 1 THEN FromInt(0) ELSE massGuess[i]

uOther(i) == uGuess[i]

\* The replacements of the last control: the guess, no thrust, and a
\* negative thrust.
uLast == {uGuess[N], uBurn[N], FromInt(-1)}

\* A candidate leaves the burn trajectory in at most this many entries.
MaxDeviations == 4

Entries == {"y", "velocity", "mass", "u"} \X (1 .. N)

Deviations == {D \in SUBSET Entries : Cardinality(D) <= MaxDeviations}

\* Candidates for the mass constraint alone: masses on a ladder around
\* mass_initial, one ton apart, and the thrusts that move the mass by one
\* rung per interval in either direction, or not at all.
massLadder == {FromInt(mass_initial + k) : k \in -1 .. 1}

uRung == RDiv(FromInt(1), RMul(alpha, dt))

uLadder == {RNeg(uRung), FromInt(0), uRung}

\* No event yet, no cell run, and the solver has not looked at the problem:
\* the decision variables hold their initial guesses.
Init ==
    /\ workflow = "idle"
    /\ job = QueuedJobs
    /\ nb = FreshKernels
    /\ y = yGuess
    /\ velocity = velocityGuess
    /\ mass = massGuess
    /\ u = uGuess
    /\ sat = << >>
    /\ lastOp = "none"

\* The candidates the solver may look at: the burn trajectory with some
\* entries replaced.
RocketInit ==
    /\ workflow = "idle"
    /\ job = QueuedJobs
    /\ nb = FreshKernels
    /\ \E D \in Deviations :
           /\ y = [i \in 1 .. N |->
                      IF <<"y", i>> \in D THEN yOther(i) ELSE yBurn[i]]
           /\ velocity = [i \in 1 .. N |->
                      IF <<"velocity", i>> \in D THEN velocityOther(i)
                      ELSE velocityBurn[i]]
           /\ mass = [i \in 1 .. N |->
                      IF <<"mass", i>> \in D THEN massOther(i) ELSE massBurn[i]]
           /\ u = [i \in 1 .. N |->
                      IF <<"u", i>> \in D THEN uOther(i) ELSE uBurn[i]]
    /\ sat = << >>
    /\ lastOp = "none"

\* The candidates for the mass constraint: every mass and thrust of the
\* ladders at every grid point.
MassInit ==
    /\ workflow = "idle"
    /\ job = QueuedJobs
    /\ nb = FreshKernels
    /\ y = yGuess
    /\ velocity = velocityGuess
    /\ mass \in [1 .. N -> massLadder]
    /\ u \in [1 .. N -> uLadder]
    /\ sat = << >>
    /\ lastOp = "none"

\* The constraints and the objective are evaluated on the candidate.
Evaluate ==
    /\ sat = << >>
    /\ sat' = << Posed(y, velocity, mass, u) >>
    /\ lastOp' = "evaluate"
    /\ UNCHANGED <<y, velocity, mass, u, ciVars, nbVars>>

\* The last control value is replaced, everything else kept, and the problem
\* evaluated again.
ReplaceLastControl ==
    /\ sat # << >>
    /\ \E c \in uLast :
           /\ c # u[N]
           /\ u' = [u EXCEPT ![N] = c]
           /\ sat' = << Posed(y, velocity, mass, [u EXCEPT ![N] = c]) >>
    /\ UNCHANGED <<y, velocity, mass>>
    /\ lastOp' = "replace"
    /\ UNCHANGED <<ciVars, nbVars>>

RocketNext ==
    \/ Evaluate
    \/ ReplaceLastControl

----------------------------------------------------------------------------
(* Properties of the notebooks' execution                                  *)

ConstraintOps == {"subject_to", "constrain_derivative"}

Calls(n) == nb[n].calls

\* The calls of notebook n with operation op, by position.
CallsOf(n, op) == {i \in 1 .. Len(Calls(n)) : Calls(n)[i].op = op}

\* The result is printed only after opti.solve has returned.
PrintedAfterSolveReturned(n) ==
    \A k \in 1 .. Len(Calls(n)) :
        (Calls(n)[k].op = "print" /\ Calls(n)[k].sol) =>
            \E i \in CallsOf(n, "solve") : i < k /\ Calls(n)[i].outcome = "ok"

\* C1 as stated: in each notebook every call that adds a constraint
\* (opti.subject_to, opti.constrain_derivative) precedes opti.solve, so no
\* constraint is added after the solver was invoked, and the result is
\* printed only after opti.solve has returned.
NbConstraintsAllBeforeSolve ==
    \A n \in Notebooks :
        /\ \A i \in CallsOf(n, "solve") :
               \A k \in 1 .. Len(Calls(n)) :
                   Calls(n)[k].op \in ConstraintOps => k < i
        /\ PrintedAfterSolveReturned(n)

\* C1 as amended: every opti.subject_to call precedes opti.solve and the
\* result is printed only after opti.solve has returned; the gradient
\* notebook adds no constraint after the solve, while every
\* opti.constrain_derivative call is the rocket notebook's and is made after
\* opti.solve was invoked, in the cell after the one that solves.
NbSubjectToBeforeSolve ==
    \A n \in Notebooks :
        /\ \A i \in CallsOf(n, "solve") :
               \A k \in CallsOf(n, "subject_to") : k < i
        /\ PrintedAfterSolveReturned(n)
        /\ \A k \in CallsOf(n, "constrain_derivative") :
               /\ n = "rocket"
               /\ \E i \in CallsOf(n, "solve") :
                      i < k /\ Calls(n)[i].cell < Calls(n)[k].cell

\* Both notebooks ran to the end after a solve that returned, the rocket
\* notebook adding its three derivative constraints after it.
NbBothRanToTheEnd ==
    /\ \A n \in Notebooks :
           /\ nb[n].status = "done"
           /\ \E i \in CallsOf(n, "solve") : Calls(n)[i].outcome = "ok"
    /\ Cardinality(CallsOf("rocket", "constrain_derivative")) = 3

\* C7: a notebook calls opti.solve at most once; when the call raises, no
\* later statement of its cell runs, the result is never printed, the cell
\* ends with the very exception raised, and the solve is not tried again.
NbSolverFailurePropagates ==
    \A n \in Notebooks :
        /\ Cardinality(CallsOf(n, "solve")) <= 1
        /\ \A i \in CallsOf(n, "solve") :
               Calls(n)[i].outcome # "ok" =>
                   /\ \A k \in 1 .. Len(Calls(n)) :
                          k > i => Calls(n)[k].cell # Calls(n)[i].cell
                   /\ \A k \in CallsOf(n, "print") : ~Calls(n)[k].sol
                   /\ \E e \in 1 .. Len(nb[n].errors) :
                          nb[n].errors[e] = [cell |-> Calls(n)[i].cell,
                                             exc  |-> Calls(n)[i].outcome]
        /\ \A i \in CallsOf(n, "solve") :
               Calls(n)[i].outcome = "ok" => nb[n].errors = << >>

\* The rocket notebook's solve raised and the run went on to the end of the
\* notebook; the gradient notebook's solve raised and the run stopped.
NbSolveRaised ==
    /\ nb["rocket"].status = "done"
    /\ \E i \in CallsOf("rocket", "solve") :
           Calls("rocket")[i].outcome = "infeasible"
    /\ nb["gradient"].status = "stopped"

----------------------------------------------------------------------------
(* Properties of the rocket problem                                        *)

AllRows(v) == \A i \in 1 .. Len(v) : v[i]

\* Every constraint of an evaluation holds.
Feasible(r) ==
    /\ AllRows(r.dynamics.y)
    /\ AllRows(r.dynamics.velocity)
    /\ AllRows(r.dynamics.mass)
    /\ r.boundary.y0 /\ r.boundary.v0 /\ r.boundary.m0 /\ r.boundary.y_final
    /\ AllRows(r.path.mass)
    /\ AllRows(r.path.u)

\* C4: each of the three manual dynamics constraints has exactly N-1 rows,
\* and row i (i = 0 .. N-2 in the notebook, 1 .. N-1 here) holds exactly when
\* the increment of the state over interval i equals the derivative at the
\* start of the interval times the length of the interval.
RocketDynamicsIsForwardEuler ==
    sat # << >> =>
        LET d == sat[1].dynamics
            step(i) == RSub(time[i + 1], time[i])
        IN  /\ Len(d.y) = N - 1
            /\ Len(d.velocity) = N - 1
            /\ Len(d.mass) = N - 1
            /\ \A i \in 1 .. N - 1 :
                   /\ d.y[i] <=>
                          REq(RSub(y[i + 1], y[i]), RMul(velocity[i], step(i)))
                   /\ d.velocity[i] <=>
                          REq(RSub(velocity[i + 1], velocity[i]),
                              RMul(RSub(RDiv(u[i], mass[i]), g), step(i)))
                   /\ d.mass[i] <=>
                          REq(RSub(mass[i + 1], mass[i]),
                              RMul(RMul(RNeg(alpha), u[i]), step(i)))

\* A candidate was evaluated that satisfies every row of the dynamics, and
\* its velocity and mass change from one grid point to the next.
RocketDynamicsSatisfied ==
    /\ sat # << >>
    /\ AllRows(sat[1].dynamics.y)
    /\ AllRows(sat[1].dynamics.velocity)
    /\ AllRows(sat[1].dynamics.mass)
    /\ velocity[1] # velocity[2]
    /\ mass[1] # mass[2]

\* C9: with alpha > 0 and a strictly increasing time grid, a candidate that
\* satisfies the mass constraint, u >= 0 and mass[0] = mass_initial has a
\* non-increasing mass, nowhere above mass_initial, the final mass included.
RocketMassNeverIncreases ==
    (/\ sat # << >>
     /\ RLess(FromInt(0), alpha)
     /\ \A i \in 1 .. N - 1 : RLess(time[i], time[i + 1])
     /\ AllRows(sat[1].dynamics.mass)
     /\ AllRows(sat[1].path.u)
     /\ sat[1].boundary.m0)
    => /\ \A i \in 1 .. N - 1 : RLeq(mass[i + 1], mass[i])
       /\ \A i \in 1 .. N : RLeq(mass[i], FromInt(mass_initial))
       /\ RLeq(RNeg(sat[1].objective), FromInt(mass_initial))

\* A candidate was evaluated that satisfies the mass constraint, u >= 0 and
\* the initial mass, and burns fuel.
RocketMassBurnt ==
    /\ sat # << >>
    /\ AllRows(sat[1].dynamics.mass)
    /\ AllRows(sat[1].path.u)
    /\ sat[1].boundary.m0
    /\ RLess(mass[N], FromInt(mass_initial))

\* C10: replacing the last control value of a candidate that satisfies every
\* constraint by another non-negative value, the rest kept, gives a
\* candidate that satisfies every constraint and has the same objective.
RocketLastControlIsFree ==
    [][(/\ lastOp' = "replace"
        /\ sat # << >>
        /\ Feasible(sat[1])
        /\ u'[N] # u[N]
        /\ RGeq(u'[N], FromInt(0)))
       => /\ <<y', velocity', mass'>> = <<y, velocity, mass>>
          /\ \A i \in 1 .. N - 1 : u'[i] = u[i]
          /\ Feasible(sat'[1])
          /\ sat'[1].objective = sat[1].objective]_vars

\* The last control of a candidate was replaced by a positive thrust, and
\* the candidate satisfies every constraint.
RocketLastControlReplaced ==
    /\ lastOp = "replace"
    /\ sat # << >>
    /\ Feasible(sat[1])
    /\ RLess(FromInt(0), u[N])

----------------------------------------------------------------------------
(* Specifications                                                          *)

SpecCI == Init /\ [][CINext]_vars

SpecNotebook == Init /\ [][NbNext]_vars

SpecRocket == RocketInit /\ [][RocketNext]_vars

SpecMass == MassInit /\ [][RocketNext]_vars

====
